---------------------------- MODULE Spec2Model ----------------------------
(***************************************************************************)
(* Folder Creator (Create_folders.py): the form state of FolderCreatorApp, *)
(* the Tk variable traces that couple the check boxes, the validation of   *)
(* the three text fields and the walk that issues the mkdir calls.         *)
(*                                                                         *)
(* Text is a sequence of characters; a character is a one-token string.    *)
(* A path is a sequence of components, a component a sequence of tokens.   *)
(***************************************************************************)
EXTENDS Integers, Sequences, FiniteSets, TLC

(***************************************************************************)
(* Bounds of the model.  The model walks NumSections consecutive sections  *)
(* of layout_order, starting at "Field Measurements" (the first section    *)
(* with extra children), and the first NumSubs subfolders of each.         *)
(***************************************************************************)
NumSections == 2

NumSubs == 2

(***************************************************************************)
(* Characters and character classes of the regular expressions.            *)
(***************************************************************************)
UpperAscii == {"A", "D"}

LowerAscii == {"a", "d"}

AsciiLetter == UpperAscii \cup LowerAscii

Digit == {"0", "2", "6"}

\* a letter of the Latin-1 ranges À-Ö, Ø-ö, ø-ÿ
Latin1Letter == {"e_acute"}

\* str.strip() and \s
Whitespace == {" ", "TAB"}

upper_char(c) ==
  CASE c = "a" -> "A"
    [] c = "d" -> "D"
    [] c = "e_acute" -> "E_ACUTE"
    [] OTHER -> c

upper(s) == [i \in 1..Len(s) |-> upper_char(s[i])]

RECURSIVE lstrip(_)
lstrip(s) ==
  IF s # <<>> /\ Head(s) \in Whitespace THEN lstrip(Tail(s)) ELSE s

RECURSIVE rstrip(_)
rstrip(s) ==
  IF s # <<>> /\ s[Len(s)] \in Whitespace
    THEN rstrip(SubSeq(s, 1, Len(s) - 1))
    ELSE s

strip(s) == rstrip(lstrip(s))

(***************************************************************************)
(* The folder tree, the sub-subfolder map and the layout order.            *)
(***************************************************************************)
tree_keys ==
  << "Intro & Documentation", "Lab Measurements", "Field Measurements",
     "Geodata", "Finance & Administration", "Outcome" >>

tree ==
  [ section \in {tree_keys[k] : k \in 1..Len(tree_keys)} |->
      CASE section = "Intro & Documentation" ->
             << "General Info", "Project Proposal", "Go-to Person",
                "Fieldwork Site", "Sample list 4 Lab-Team", "Material List",
                "Fieldwork Protocol-Planning-Permission", "Images",
                "Meetings" >>
        [] section = "Lab Measurements" ->
             << "TOC", "pH", "CN", "ICP-MS", "CFA", "Aqualog",
                "Raw Data Preparation", "Misc-Lab Data" >>
        [] section = "Field Measurements" ->
             << "Meteorology", "Hydrology", "Vegetation", "Soil" >>
        [] section = "Geodata" ->
             << "Coordinates", "Maps", "Satellite Images" >>
        [] section = "Finance & Administration" ->
             << "Approvals & Guidelines", "Expenditure Reports",
                "Account Overview", "Bank Statements",
                "Personnel-Assistants & Staff",
                "Contracts - Service & Transfer", "Travel Expense Reports",
                "Reimbursement Claims", "Purchase Orders" >>
        [] section = "Outcome" ->
             << "Master Files", "Presentations", "Publications", "Reports",
                "Logo", "Other Outputs" >> ]

\* self.sub_sub_map.get(section, {}).get(sub, [])
sub_sub_map(section, sub) ==
  CASE section = "Finance & Administration"
         /\ sub = "Personnel-Assistants & Staff" ->
           << "Personnel-Assistants", "Personnel-Staff" >>
    [] section = "Finance & Administration"
         /\ sub = "Contracts - Service & Transfer" ->
           << "Contracts-Service", "Contracts-Transfer" >>
    [] section = "Field Measurements" /\ sub = "Meteorology" ->
           << "Meteorology Manual", "Meteorology Instrument" >>
    [] section = "Field Measurements" /\ sub = "Hydrology" ->
           << "Hydrology Manual", "Hydrology Instrument" >>
    [] section = "Field Measurements" /\ sub = "Vegetation" ->
           << "Vegetation Manual", "Vegetation Instrument" >>
    [] section = "Field Measurements" /\ sub = "Soil" ->
           << "Soil Manual", "Soil Instrument" >>
    [] OTHER -> << >>

layout_order_swapped ==
  << "Intro & Documentation", "Lab Measurements", "Geodata",
     "Field Measurements", "Finance & Administration", "Outcome" >>

layout_order ==
  << "Intro & Documentation", "Lab Measurements", "Field Measurements",
     "Geodata", "Finance & Administration", "Outcome" >>

Min(a, b) == IF a < b THEN a ELSE b

\* the window of layout_order the model walks
FirstModelled == CHOOSE k \in 1..Len(tree_keys) : tree_keys[k] = "Field Measurements"

SectionSet ==
  {tree_keys[k] : k \in FirstModelled..Min(FirstModelled + NumSections - 1, Len(tree_keys))}

\* the keys of self.section_vars, in insertion order (the loop of _build_ui)
section_order == SelectSeq(layout_order, LAMBDA s : s \in SectionSet)

\* the names of self.sub_vars[section], in order
SubsOf(section) == SubSeq(tree[section], 1, Min(NumSubs, Len(tree[section])))

SubIdx(section) == 1..Len(SubsOf(section))


(***************************************************************************)
(* _validate_inputs: the regular expressions.                              *)
(***************************************************************************)
AcronymFirst == AsciiLetter \cup Digit

AcronymRest == AsciiLetter \cup Digit \cup {"-", " ", "_"}

PersonFirst == AsciiLetter \cup Latin1Letter

PersonRest == AsciiLetter \cup Latin1Letter \cup Whitespace \cup {"-", ".", "'"}

\* re.match(r"^([A-Za-z])\-([A-Za-z0-9][A-Za-z0-9\- _]*)$", name)
m_name(name) ==
  /\ Len(name) >= 3
  /\ name[1] \in AsciiLetter
  /\ name[2] = "-"
  /\ name[3] \in AcronymFirst
  /\ \A k \in 4..Len(name) : name[k] \in AcronymRest

\* re.match(r"^(\d{4})\-([A-Za-zÀ-ÖØ-öø-ÿ][A-Za-zÀ-ÖØ-öø-ÿ\s\-\.\']*)$", meta)
m_meta(meta) ==
  /\ Len(meta) >= 6
  /\ \A k \in 1..4 : meta[k] \in Digit
  /\ meta[5] = "-"
  /\ meta[6] \in PersonFirst
  /\ \A k \in 7..Len(meta) : meta[k] \in PersonRest

\* re.fullmatch(r"^[A-Za-z]$", drive)
m_drive(drive) == Len(drive) = 1 /\ drive[1] \in AsciiLetter

\* the list `missing` of the required-fields block
missing(name, meta, drive) ==
  (IF name = <<>> THEN << "Code & Project Acronym" >> ELSE << >>)
    \o (IF meta = <<>> THEN << "Start Year & Person" >> ELSE << >>)
    \o (IF drive = <<>> THEN << "Drive/Path" >> ELSE << >>)

\* the tuple returned for inputs that pass every check
identity(name, meta, drive) ==
  LET code == upper(<< name[1] >>)
      acronym == SubSeq(name, 3, Len(name))
      year == SubSeq(meta, 1, 4)
      person == strip(SubSeq(meta, 6, Len(meta)))
      base == upper(drive) \o << ":", "/" >>
      yy == SubSeq(year, 3, 4)
      project_code == code \o yy
      main_folder_name ==
        project_code \o << "-" >> \o acronym \o << "-" >> \o year
          \o << "-" >> \o person
  IN  [ project_code |-> project_code,
        acronym |-> acronym,
        main |-> << base, main_folder_name >> ]

\* the dialog _validate_inputs opens, or "Valid"; the checks in the wrong order
validate_inputs_drive_first(raw_name, raw_meta, raw_drive) ==
  LET name == strip(raw_name)
      meta == strip(raw_meta)
      drive == strip(raw_drive)
  IN  IF missing(name, meta, drive) # << >> THEN "IncompleteForm"
      ELSE IF ~ m_drive(drive) THEN "InvalidDrive"
      ELSE IF ~ m_name(name) THEN "InvalidName"
      ELSE IF ~ m_meta(meta) THEN "InvalidFormat"
      ELSE "Valid"

\* the dialog _validate_inputs opens, or "Valid"
validate_inputs(raw_name, raw_meta, raw_drive) ==
  LET name == strip(raw_name)
      meta == strip(raw_meta)
      drive == strip(raw_drive)
  IN  IF missing(name, meta, drive) # << >> THEN "IncompleteForm"
      ELSE IF ~ m_name(name) THEN "InvalidName"
      ELSE IF ~ m_meta(meta) THEN "InvalidFormat"
      ELSE IF ~ m_drive(drive) THEN "InvalidDrive"
      ELSE "Valid"

NoIdentity == [ project_code |-> << >>, acronym |-> << >>, main |-> << >> ]

(***************************************************************************)
(* State.                                                                  *)
(***************************************************************************)
VARIABLES
  entry_name,        \* text of self.entry_name
  entry_meta,        \* text of self.entry_meta
  entry_drive,       \* text of self.entry_drive
  section_vars,      \* section -> 0/1
  sub_vars,          \* section -> (index of subfolder -> 0/1)
  select_all_vars,   \* section -> 0/1
  children_enabled,  \* section -> state of its select-all and subfolder boxes
  bulk_update,       \* self._bulk_update
  pc,                \* where the program stands: the form or an open dialog
  validated,         \* project_code, acronym, main_folder of create_folders
  attempts,          \* the create_folder calls of this run and their outcome
  error_answers      \* the answers given to the "Error" prompts of this run

vars ==
  << entry_name, entry_meta, entry_drive, section_vars, sub_vars,
     select_all_vars, children_enabled, bulk_update, pc, validated,
     attempts, error_answers >>

texts == << entry_name, entry_meta, entry_drive >>

checks == << section_vars, sub_vars, select_all_vars, children_enabled, bulk_update >>

run == << validated, attempts, error_answers >>

(***************************************************************************)
(* The variable traces.  A Tk write trace runs on every set of its         *)
(* variable, except while a trace of that same variable is running.  The   *)
(* callbacks work on a record of the variables they touch; `active` is the *)
(* set of variables whose trace is running.                                *)
(***************************************************************************)
RECURSIVE set_sub(_, _, _, _)
RECURSIVE set_select_all(_, _, _)
RECURSIVE update_select_all(_, _)
RECURSIVE toggle_all_children(_, _, _)
RECURSIVE toggle_loop(_, _, _, _)

int(b) == IF b THEN 1 ELSE 0

\* v.set(value) for the subfolder variable k of sect, and its trace
set_sub(st, sect, k, value) ==
  LET written == [st EXCEPT !.sub_vars[sect][k] = value]
      me == << "sub", sect, k >>
  IN  IF me \in st.active
        THEN written
        ELSE [ update_select_all([written EXCEPT !.active = @ \cup {me}], sect)
                 EXCEPT !.active = st.active ]

\* self.select_all_vars[sect].set(value), and its trace
set_select_all(st, sect, value) ==
  LET written == [st EXCEPT !.select_all_vars[sect] = value]
      me == << "select_all", sect, 0 >>
  IN  IF me \in st.active
        THEN written
        ELSE [ toggle_all_children([written EXCEPT !.active = @ \cup {me}],
                                   written.select_all_vars[sect], sect)
                 EXCEPT !.active = st.active ]

update_select_all_any(st, sect) ==
  IF st.bulk_update
    THEN st
    ELSE LET all_on == \E k \in SubIdx(sect) : st.sub_vars[sect][k] = 1
         IN  IF st.select_all_vars[sect] # int(all_on)
               THEN [ set_select_all([st EXCEPT !.bulk_update = TRUE], sect, int(all_on))
                        EXCEPT !.bulk_update = FALSE ]
               ELSE st

update_select_all(st, sect) ==
  IF st.bulk_update
    THEN st
    ELSE LET all_on == \A k \in SubIdx(sect) : st.sub_vars[sect][k] = 1
         IN  IF st.select_all_vars[sect] # int(all_on)
               THEN [ set_select_all([st EXCEPT !.bulk_update = TRUE], sect, int(all_on))
                        EXCEPT !.bulk_update = FALSE ]
               ELSE st

\* the for loop of toggle_all_children, from subfolder k on
toggle_loop(st, to_value, sect, k) ==
  IF k > Len(SubsOf(sect))
    THEN st
    ELSE toggle_loop(set_sub(st, sect, k, to_value), to_value, sect, k + 1)

toggle_all_children(st, to_value, sect) ==
  [ toggle_loop([st EXCEPT !.bulk_update = TRUE], to_value, sect, 1)
      EXCEPT !.bulk_update = FALSE ]

\* the variables as the record the traces work on, no trace running
Now ==
  [ sub_vars |-> sub_vars, select_all_vars |-> select_all_vars,
    bulk_update |-> bulk_update, active |-> {} ]

Store(st) ==
  /\ sub_vars' = st.sub_vars
  /\ select_all_vars' = st.select_all_vars
  /\ bulk_update' = st.bulk_update

(***************************************************************************)
(* The walk of create_folders: the paths handed to create_folder, in the   *)
(* order of the calls, when no call ends the process.                      *)
(***************************************************************************)
RECURSIVE child_walk(_, _, _, _)
RECURSIVE sub_walk(_, _, _, _, _)
RECURSIVE section_walk(_, _, _, _)

\* f"{project_code}-{acronym} {label}"
folder_name(v, label) ==
  v.project_code \o << "-" >> \o v.acronym \o << " ", label >>

\* for child in extra_children, from child c on
child_walk(v, sub_path, extra_children, c) ==
  IF c > Len(extra_children)
    THEN << >>
    ELSE << Append(sub_path, folder_name(v, extra_children[c])) >>
           \o child_walk(v, sub_path, extra_children, c + 1)

\* for sub, v in self.sub_vars[section], from subfolder k on
sub_walk(v, subv, section_path, section, k) ==
  IF k > Len(SubsOf(section))
    THEN << >>
    ELSE LET sub == SubsOf(section)[k]
             sub_path == Append(section_path, folder_name(v, sub))
         IN  (IF subv[section][k] = 0
                THEN << >>
                ELSE << sub_path >>
                       \o child_walk(v, sub_path, sub_sub_map(section, sub), 1))
               \o sub_walk(v, subv, section_path, section, k + 1)

\* for section, svar in self.section_vars.items(), from section j on
section_walk(v, secv, subv, j) ==
  IF j > Len(section_order)
    THEN << >>
    ELSE LET section == section_order[j]
             section_path == Append(v.main, folder_name(v, section))
         IN  (IF secv[section] = 0
                THEN << >>
                ELSE << section_path >> \o sub_walk(v, subv, section_path, section, 1))
               \o section_walk(v, secv, subv, j + 1)

walk_ignoring_section_box(v, secv, subv) ==
  << v.main >> \o section_walk(v, [s \in SectionSet |-> 1], subv, 1)

walk(v, secv, subv) == << v.main >> \o section_walk(v, secv, subv, 1)

\* the paths of the run in progress
Planned == walk(validated, section_vars, sub_vars)

(***************************************************************************)
(* reset_form.                                                             *)
(***************************************************************************)
RECURSIVE reset_sub_loop(_, _, _)
RECURSIVE reset_subs(_, _)
RECURSIVE reset_select_alls(_, _)

\* for _, v in subs: v.set(0)
reset_sub_loop(st, sect, k) ==
  IF k > Len(SubsOf(sect))
    THEN st
    ELSE reset_sub_loop(set_sub(st, sect, k, 0), sect, k + 1)

\* for section, subs in self.sub_vars.items()
reset_subs(st, j) ==
  IF j > Len(section_order)
    THEN st
    ELSE reset_subs(reset_sub_loop(st, section_order[j], 1), j + 1)

\* for section, selvar in self.select_all_vars.items(): selvar.set(0)
reset_select_alls(st, j) ==
  IF j > Len(section_order)
    THEN st
    ELSE reset_select_alls(set_select_all(st, section_order[j], 0), j + 1)

reset_form_clearing_drive ==
  /\ entry_name' = << >>
  /\ entry_meta' = << >>
  /\ entry_drive' = << >>
  /\ section_vars' = [s \in SectionSet |-> 0]
  /\ children_enabled' = [s \in SectionSet |-> FALSE]
  /\ Store(reset_select_alls(reset_subs(Now, 1), 1))

reset_form ==
  /\ entry_name' = << >>
  /\ entry_meta' = << >>
  /\ entry_drive' = entry_drive
  /\ section_vars' = [s \in SectionSet |-> 0]
  /\ children_enabled' = [s \in SectionSet |-> FALSE]
  /\ Store(reset_select_alls(reset_subs(Now, 1), 1))

(***************************************************************************)
(* What the user can type into the fields.                                 *)
(***************************************************************************)
NameInputs ==
  { << >>, << "a", "-", "D" >>, << "A", "_", "D" >> }

MetaInputs ==
  { << >>, << "2", "0", "2", "6", "-", "A", "d" >>, << "2", "0", "6", "-", "A", "d" >> }

DriveInputs ==
  { << >>, << "d" >>, << "d", "d" >> }

(***************************************************************************)
(* Initial state: the form as __init__ and _build_ui leave it.             *)
(***************************************************************************)
Init ==
  /\ entry_name = << >>
  /\ entry_meta = << >>
  /\ entry_drive = << >>
  /\ section_vars = [s \in SectionSet |-> 0]
  /\ sub_vars = [s \in SectionSet |-> [k \in SubIdx(s) |-> 0]]
  /\ select_all_vars = [s \in SectionSet |-> 0]
  /\ children_enabled = [s \in SectionSet |-> FALSE]
  /\ bulk_update = FALSE
  /\ pc = "Editing"
  /\ validated = NoIdentity
  /\ attempts = << >>
  /\ error_answers = << >>

(***************************************************************************)
(* The user at the form.                                                   *)
(***************************************************************************)
EditName(t) ==
  /\ pc = "Editing"
  /\ entry_name' = t
  /\ UNCHANGED << entry_meta, entry_drive, checks, pc, run >>

EditMeta(t) ==
  /\ pc = "Editing"
  /\ entry_meta' = t
  /\ UNCHANGED << entry_name, entry_drive, checks, pc, run >>

EditDrive(t) ==
  /\ pc = "Editing"
  /\ entry_drive' = t
  /\ UNCHANGED << entry_name, entry_meta, checks, pc, run >>

\* a click on a section box: the variable flips, its trace runs set_children_enabled
ToggleSection(s) ==
  /\ pc = "Editing"
  /\ section_vars' = [section_vars EXCEPT ![s] = 1 - @]
  /\ children_enabled' = [children_enabled EXCEPT ![s] = (section_vars'[s] = 1)]
  /\ UNCHANGED << texts, sub_vars, select_all_vars, bulk_update, pc, run >>

\* a click on an enabled "Select all subfolders" box
ToggleSelectAll(s) ==
  /\ pc = "Editing"
  /\ children_enabled[s]
  /\ Store(set_select_all(Now, s, 1 - select_all_vars[s]))
  /\ UNCHANGED << texts, section_vars, children_enabled, pc, run >>

\* a click on an enabled subfolder box
ToggleSub(s, k) ==
  /\ pc = "Editing"
  /\ children_enabled[s]
  /\ Store(set_sub(Now, s, k, 1 - sub_vars[s][k]))
  /\ UNCHANGED << texts, section_vars, children_enabled, pc, run >>

(***************************************************************************)
(* create_folders, from the click on "Create Folders" to its return.  The  *)
(* handler blocks in each message box until the user answers; the form     *)
(* cannot be touched meanwhile.                                            *)
(***************************************************************************)
ErrorBoxes == {"InvalidName", "InvalidFormat", "InvalidDrive"}

\* where the walk stands after a call that did not end the process
AfterCall(n) == IF n = Len(Planned) THEN "Completed" ELSE "Creating"

SubmitClearingOnError ==
  /\ pc = "Editing"
  /\ LET outcome == validate_inputs(entry_name, entry_meta, entry_drive)
     IN  IF outcome = "Valid"
           THEN /\ pc' = "Confirmation"
                /\ validated' = identity(strip(entry_name), strip(entry_meta),
                                         strip(entry_drive))
                /\ UNCHANGED texts
           ELSE /\ pc' = outcome
                /\ validated' = NoIdentity
                /\ entry_name' = << >>
                /\ UNCHANGED << entry_meta, entry_drive >>
  /\ UNCHANGED << checks, attempts, error_answers >>

SubmitWithoutConfirmation ==
  /\ pc = "Editing"
  /\ LET outcome == validate_inputs(entry_name, entry_meta, entry_drive)
     IN  IF outcome = "Valid"
           THEN /\ pc' = "Creating"
                /\ validated' = identity(strip(entry_name), strip(entry_meta),
                                         strip(entry_drive))
           ELSE /\ pc' = outcome
                /\ validated' = NoIdentity
  /\ UNCHANGED << texts, checks, attempts, error_answers >>

\* the click: _validate_inputs runs up to its dialog, or to the confirmation
Submit ==
  /\ pc = "Editing"
  /\ LET outcome == validate_inputs(entry_name, entry_meta, entry_drive)
     IN  IF outcome = "Valid"
           THEN /\ pc' = "Confirmation"
                /\ validated' = identity(strip(entry_name), strip(entry_meta),
                                         strip(entry_drive))
           ELSE /\ pc' = outcome
                /\ validated' = NoIdentity
  /\ UNCHANGED << texts, checks, attempts, error_answers >>

\* the answer to "Incomplete form": keep editing, or root.destroy()
AnswerIncomplete(keep_editing) ==
  /\ pc = "IncompleteForm"
  /\ pc' = IF keep_editing THEN "Editing" ELSE "Terminated"
  /\ UNCHANGED << texts, checks, run >>

\* OK in a showerror box; _validate_inputs returns None
DismissError ==
  /\ pc \in ErrorBoxes
  /\ pc' = "Editing"
  /\ UNCHANGED << texts, checks, run >>

\* the answer to "Confirmation"
AnswerConfirm(proceed) ==
  /\ pc = "Confirmation"
  /\ IF proceed
       THEN /\ pc' = "Creating"
            /\ attempts' = << >>
            /\ error_answers' = << >>
            /\ UNCHANGED validated
       ELSE /\ pc' = "Editing"
            /\ validated' = NoIdentity
            /\ UNCHANGED << attempts, error_answers >>
  /\ UNCHANGED << texts, checks >>

create_folder_skipping_failures ==
  /\ pc = "Creating"
  /\ \E ok \in BOOLEAN :
       /\ attempts' = Append(attempts, [ path |-> Planned[Len(attempts) + 1], ok |-> ok ])
       /\ pc' = AfterCall(Len(attempts) + 1)
  /\ UNCHANGED << texts, checks, validated, error_answers >>

\* the next create_folder call of the walk: mkdir succeeds, or raises OSError
\* and the "Error" prompt opens
create_folder ==
  /\ pc = "Creating"
  /\ \E ok \in BOOLEAN :
       /\ attempts' = Append(attempts, [ path |-> Planned[Len(attempts) + 1], ok |-> ok ])
       /\ pc' = IF ok THEN AfterCall(Len(attempts) + 1) ELSE "Error"
  /\ UNCHANGED << texts, checks, validated, error_answers >>

AnswerErrorStopping(proceed) ==
  /\ pc = "Error"
  /\ error_answers' = Append(error_answers, proceed)
  /\ pc' = IF proceed THEN "Completed" ELSE "Terminated"
  /\ UNCHANGED << texts, checks, validated, attempts >>

\* the answer to "Error": go on with the walk, or sys.exit(1)
AnswerError(proceed) ==
  /\ pc = "Error"
  /\ error_answers' = Append(error_answers, proceed)
  /\ pc' = IF proceed THEN AfterCall(Len(attempts)) ELSE "Terminated"
  /\ UNCHANGED << texts, checks, validated, attempts >>

\* the answer to "Continue?" after the success message
AnswerContinue(do_more) ==
  /\ pc = "Completed"
  /\ IF do_more
       THEN /\ reset_form
            /\ pc' = "Editing"
            /\ validated' = NoIdentity
            /\ attempts' = << >>
            /\ error_answers' = << >>
       ELSE /\ pc' = "Terminated"
            /\ UNCHANGED << texts, checks, run >>

Next ==
  \/ \E t \in NameInputs : EditName(t)
  \/ \E t \in MetaInputs : EditMeta(t)
  \/ \E t \in DriveInputs : EditDrive(t)
  \/ \E s \in SectionSet : ToggleSection(s)
  \/ \E s \in SectionSet : ToggleSelectAll(s)
  \/ \E s \in SectionSet : \E k \in SubIdx(s) : ToggleSub(s, k)
  \/ Submit
  \/ \E keep_editing \in BOOLEAN : AnswerIncomplete(keep_editing)
  \/ DismissError
  \/ \E proceed \in BOOLEAN : AnswerConfirm(proceed)
  \/ create_folder
  \/ \E proceed \in BOOLEAN : AnswerError(proceed)
  \/ \E do_more \in BOOLEAN : AnswerContinue(do_more)

Spec == Init /\ [][Next]_vars

TypeOK ==
  /\ pc \in {"Editing", "IncompleteForm", "Confirmation", "Creating", "Error",
             "Completed", "Terminated"} \cup ErrorBoxes
  /\ bulk_update \in BOOLEAN
  /\ \A s \in SectionSet :
       /\ section_vars[s] \in {0, 1}
       /\ select_all_vars[s] \in {0, 1}
       /\ \A k \in SubIdx(s) : sub_vars[s][k] \in {0, 1}

(***************************************************************************)
(* Validation alone: the fields hold any of a wider set of texts, the      *)
(* boxes are as at start, and the user only submits and answers.           *)
(***************************************************************************)
ValidateNames ==
  { << >>, << " " >>, << " ", "a", "-", "D", "TAB" >>, << "A", "-", "D" >>,
    << "A", "-" >>, << "2", "-", "D" >>, << "A", "_", "D" >>,
    << "A", "-", "0", "_", " ", "-", "d" >>, << "A", "-", "_", "D" >>,
    << "A", "-", "D", "/" >>, << "A", "D", "-", "D" >> }

ValidateMetas ==
  { << >>, << "TAB" >>, << "2", "0", "2", "6", "-", "A", "d" >>,
    << " ", "2", "0", "2", "6", "-", "e_acute", ".", "'", "-", " ", "a", " " >>,
    << "2", "0", "6", "-", "A", "d" >>, << "2", "0", "2", "6", "-", "2", "d" >>,
    << "2", "0", "2", "6", "_", "A", "d" >>, << "2", "0", "2", "6", "-" >>,
    << "2", "0", "2", "6", "-", "A", "/" >>, << "2", "0", "2", "6", "0", "-", "A" >> }

ValidateDrives ==
  { << >>, << " " >>, << "D" >>, << " ", "d", " " >>, << "D", "D" >>, << "2" >>,
    << "e_acute" >>, << "D", ":" >> }

InitValidate ==
  /\ entry_name \in ValidateNames
  /\ entry_meta \in ValidateMetas
  /\ entry_drive \in ValidateDrives
  /\ section_vars = [s \in SectionSet |-> 0]
  /\ sub_vars = [s \in SectionSet |-> [k \in SubIdx(s) |-> 0]]
  /\ select_all_vars = [s \in SectionSet |-> 0]
  /\ children_enabled = [s \in SectionSet |-> FALSE]
  /\ bulk_update = FALSE
  /\ pc = "Editing"
  /\ validated = NoIdentity
  /\ attempts = << >>
  /\ error_answers = << >>

NextValidate ==
  \/ Submit
  \/ \E keep_editing \in BOOLEAN : AnswerIncomplete(keep_editing)
  \/ DismissError
  \/ \E proceed \in BOOLEAN : AnswerConfirm(proceed)
  \/ create_folder
  \/ \E proceed \in BOOLEAN : AnswerError(proceed)
  \/ \E do_more \in BOOLEAN : AnswerContinue(do_more)

SpecValidate == InitValidate /\ [][NextValidate]_vars

(***************************************************************************)
(* Properties.                                                             *)
(***************************************************************************)
AllOn(s) == \A k \in SubIdx(s) : sub_vars[s][k] = 1

AttemptedPaths == [i \in 1..Len(attempts) |-> attempts[i].path]

\* C1: in every state between two user events, each section's select-all
\* variable is 1 exactly when all subfolder variables of the section are 1.
C1_SelectAllReflectsSubs ==
  \A s \in SectionSet : (select_all_vars[s] = 1) <=> AllOn(s)

\* a section with select-all on, next to one with some but not all boxes on
C1_Witness ==
  \E s, t \in SectionSet :
    /\ select_all_vars[s] = 1
    /\ select_all_vars[t] = 0
    /\ \E k \in SubIdx(t) : sub_vars[t][k] = 1

\* the folder of section s lies on the path
UnderSection(path, s) ==
  Len(path) >= 3 /\ path[3] = folder_name(validated, s)

NothingForUnselected ==
  \A s \in SectionSet :
    section_vars[s] = 0 =>
      \A i \in 1..Len(attempts) : ~ UnderSection(attempts[i].path, s)

\* C2: a click that deselects a section leaves the section's subfolder and
\* select-all variables as they were, and no create_folder call of a run is
\* for a path at or below the folder of a section whose box is off.
C2_UnselectedSectionInert ==
  [][ /\ \A s \in SectionSet :
           (pc = "Editing" /\ section_vars[s] = 1 /\ section_vars'[s] = 0)
             => (sub_vars'[s] = sub_vars[s] /\ select_all_vars'[s] = select_all_vars[s])
      /\ NothingForUnselected' ]_vars

\* a finished run, with a deselected section that still has a subfolder on
C2_Witness ==
  /\ pc = "Completed"
  /\ Len(attempts) >= 2
  /\ \E s \in SectionSet :
       section_vars[s] = 0 /\ \E k \in SubIdx(s) : sub_vars[s][k] = 1

(***************************************************************************)
(* The order the taxonomy declares: main folder, then by position of the   *)
(* section in the tree, of the subfolder in the section, of the child in   *)
(* the subfolder's extra children.                                         *)
(***************************************************************************)
Declared(section) == CHOOSE j \in 1..Len(tree_keys) : tree_keys[j] = section

Nodes ==
  { << 0, 0, 0 >> }
    \cup { << Declared(s), 0, 0 >> : s \in SectionSet }
    \cup UNION { { << Declared(s), k, 0 >> : k \in SubIdx(s) } : s \in SectionSet }
    \cup UNION { UNION { { << Declared(s), k, c >> :
                             c \in 1..Len(sub_sub_map(s, SubsOf(s)[k])) } :
                          k \in SubIdx(s) } : s \in SectionSet }

NodeSelected(n) ==
  \/ n[1] = 0
  \/ /\ section_vars[tree_keys[n[1]]] = 1
     /\ n[2] = 0 \/ sub_vars[tree_keys[n[1]]][n[2]] = 1

NodePath(n) ==
  IF n[1] = 0 THEN validated.main
  ELSE LET s == tree_keys[n[1]]
       IN  IF n[2] = 0 THEN validated.main \o << folder_name(validated, s) >>
           ELSE LET sub == tree[s][n[2]]
                IN  IF n[3] = 0
                      THEN validated.main
                             \o << folder_name(validated, s), folder_name(validated, sub) >>
                      ELSE validated.main
                             \o << folder_name(validated, s), folder_name(validated, sub),
                                   folder_name(validated, sub_sub_map(s, sub)[n[3]]) >>

Before(m, n) ==
  \/ m[1] < n[1]
  \/ m[1] = n[1] /\ m[2] < n[2]
  \/ m[1] = n[1] /\ m[2] = n[2] /\ m[3] < n[3]

SelectedNodes == { n \in Nodes : NodeSelected(n) }

Rank(n) == 1 + Cardinality({ m \in SelectedNodes : Before(m, n) })

\* C3: the create_folder calls of a run are, in order, the paths of the
\* selected nodes in declaration order (main folder first), each path's
\* parent having been attempted before it; a completed run attempted all.
C3_DeclarationOrder ==
  /\ \A i \in 1..Len(attempts) :
       /\ \E n \in SelectedNodes : Rank(n) = i /\ attempts[i].path = NodePath(n)
       /\ Len(attempts[i].path) > 2 =>
            \E j \in 1..(i - 1) :
              attempts[j].path = SubSeq(attempts[i].path, 1, Len(attempts[i].path) - 1)
  /\ pc = "Completed" => Len(attempts) = Cardinality(SelectedNodes)

\* a completed run over every section, with an extra-children subfolder on,
\* a plain subfolder on and some subfolder off
C3_Witness ==
  /\ pc = "Completed"
  /\ \A s \in SectionSet : section_vars[s] = 1
  /\ \E s \in SectionSet : \E k \in SubIdx(s) :
       sub_vars[s][k] = 1 /\ sub_sub_map(s, SubsOf(s)[k]) # << >>
  /\ \E s \in SectionSet : \E k \in SubIdx(s) : sub_vars[s][k] = 0
  /\ \E s \in SectionSet : \E k \in SubIdx(s) :
       sub_vars[s][k] = 1 /\ sub_sub_map(s, SubsOf(s)[k]) = << >>

Failed == { i \in 1..Len(attempts) : ~ attempts[i].ok }

\* C4 as claimed: a run that has started and is over has attempted every
\* path of the planned list.
C4_AsClaimed ==
  (attempts # << >> /\ pc \in {"Completed", "Terminated"}) => AttemptedPaths = Planned

\* C4 amended: a failure alone does not stop the walk.  The calls made are
\* always the first paths of the planned list, in order; while the walk is
\* on, a planned path remains; Completed is reached only with every planned
\* path attempted; and a run that ended short of the list ended on the
\* user's answer "no" to the prompt of a failed call.
C4_RunsOnUnlessAborted ==
  /\ Len(attempts) <= Len(Planned)
  /\ AttemptedPaths = SubSeq(Planned, 1, Len(attempts))
  /\ pc = "Creating" => Len(attempts) < Len(Planned)
  /\ pc = "Completed" => AttemptedPaths = Planned
  /\ (pc = "Terminated" /\ attempts # << >> /\ AttemptedPaths # Planned) =>
       /\ error_answers # << >>
       /\ ~ error_answers[Len(error_answers)]
       /\ ~ attempts[Len(attempts)].ok

\* a completed run whose first call, for the main folder, failed
C4_Witness ==
  /\ pc = "Completed"
  /\ Len(attempts) >= 3
  /\ ~ attempts[1].ok

\* C5: every failed call was followed by the "Error" prompt before any
\* later call: the failed calls are as many as the answers given, plus the
\* one whose prompt is open; every answer but the last was "continue", an
\* answer "abort" ended the process right after the failed call, and after
\* "continue" the walk stands at the next planned path; no path is
\* attempted twice.
C5_FailurePromptsUser ==
  /\ Cardinality(Failed) = Len(error_answers) + (IF pc = "Error" THEN 1 ELSE 0)
  /\ pc = "Error" => attempts # << >> /\ ~ attempts[Len(attempts)].ok
  /\ \A j \in 1..(Len(error_answers) - 1) : error_answers[j]
  /\ (error_answers # << >> /\ ~ error_answers[Len(error_answers)]) =>
       pc = "Terminated" /\ ~ attempts[Len(attempts)].ok
  /\ (error_answers # << >> /\ error_answers[Len(error_answers)]) =>
       \/ pc \in {"Error", "Completed", "Terminated"}
       \/ /\ pc = "Creating"
          /\ Len(attempts) < Len(Planned)
          /\ AttemptedPaths = SubSeq(Planned, 1, Len(attempts))
  /\ \A i, j \in 1..Len(attempts) : i # j => attempts[i].path # attempts[j].path

\* the user continued after one failure and aborted at the next
C5_Witness ==
  /\ pc = "Terminated"
  /\ Len(error_answers) >= 2
  /\ Len(attempts) >= 3
  /\ \E i \in 1..Len(attempts) : attempts[i].ok

ValidationDialogs == ErrorBoxes \cup {"IncompleteForm"}

\* C6: a submit that ends in a validation dialog, and the answer to that
\* dialog, change no field text and no section, subfolder or select-all
\* variable and make no create_folder call; the dialog is left for Editing,
\* or for Terminated from "Incomplete form".
C6_FailedSubmitChangesNothing ==
  [][ (pc \in ValidationDialogs \/ pc' \in ValidationDialogs) =>
        /\ texts' = texts
        /\ section_vars' = section_vars
        /\ sub_vars' = sub_vars
        /\ select_all_vars' = select_all_vars
        /\ attempts = << >> /\ attempts' = << >>
        /\ pc' \in ValidationDialogs => pc = "Editing"
        /\ pc \in ValidationDialogs =>
             \/ pc' = "Editing"
             \/ pc = "IncompleteForm" /\ pc' = "Terminated" ]_vars

\* an error box over a form with text in the fields and a subfolder ticked
C6_Witness ==
  /\ pc \in ErrorBoxes
  /\ entry_name # << >> /\ entry_meta # << >> /\ entry_drive # << >>
  /\ \E s \in SectionSet : \E k \in SubIdx(s) : sub_vars[s][k] = 1

Rule1Fails ==
  strip(entry_name) = << >> \/ strip(entry_meta) = << >> \/ strip(entry_drive) = << >>

Rule2Fails == ~ m_name(strip(entry_name))

Rule3Fails == ~ m_meta(strip(entry_meta))

Rule4Fails ==
  ~ (Len(strip(entry_drive)) = 1 /\ strip(entry_drive)[1] \in AsciiLetter)

C8_NoCreationBeforeYes ==
  [][ /\ Len(attempts') > Len(attempts) => pc = "Creating"
      /\ (pc' = "Creating" /\ pc \notin {"Creating", "Error"}) => pc = "Confirmation"
      /\ pc' = "Confirmation" =>
           pc = "Editing" /\ ~ (Rule1Fails \/ Rule2Fails \/ Rule3Fails \/ Rule4Fails)
      /\ pc = "Confirmation" => attempts = << >>
      /\ \A proceed \in BOOLEAN :
           AnswerConfirm(proceed) =>
             IF proceed
               THEN pc' = "Creating" /\ attempts' = << >>
               ELSE /\ pc' = "Editing"
                    /\ texts' = texts
                    /\ checks' = checks
                    /\ attempts' = << >> ]_vars

\* the walk about to start, after "yes", with a section selected
C8_Witness ==
  /\ pc = "Creating"
  /\ attempts = << >>
  /\ \E s \in SectionSet : section_vars[s] = 1

\* C9: from Completed the program goes to Editing or Terminated; going to
\* Editing it empties the code-acronym and year-person fields, sets every
\* section, subfolder and select-all variable to 0 and keeps the drive text.
C9_ResetKeepsDrive ==
  [][ pc = "Completed" =>
        /\ pc' \in {"Editing", "Terminated"}
        /\ pc' = "Editing" =>
             /\ entry_name' = << >>
             /\ entry_meta' = << >>
             /\ entry_drive' = entry_drive
             /\ \A s \in SectionSet :
                  /\ section_vars'[s] = 0
                  /\ select_all_vars'[s] = 0
                  /\ \A k \in SubIdx(s) : sub_vars'[s][k] = 0 ]_vars

\* Completed, with a drive text, a fully selected section and a section
\* with some but not all subfolders on
C9_Witness ==
  /\ pc = "Completed"
  /\ entry_drive # << >>
  /\ \E s, t \in SectionSet :
       /\ section_vars[s] = 1 /\ select_all_vars[s] = 1
       /\ select_all_vars[t] = 0 /\ \E k \in SubIdx(t) : sub_vars[t][k] = 1

\* C10: a click on one subfolder box changes, of all the box variables,
\* only that subfolder's and its section's select-all.
C10_OnlyThatSubfolder ==
  [][ \A s \in SectionSet : \A k \in SubIdx(s) :
        ToggleSub(s, k) =>
          /\ sub_vars'[s][k] = 1 - sub_vars[s][k]
          /\ \A j \in SubIdx(s) \ {k} : sub_vars'[s][j] = sub_vars[s][j]
          /\ \A t \in SectionSet \ {s} :
               sub_vars'[t] = sub_vars[t] /\ select_all_vars'[t] = select_all_vars[t]
          /\ section_vars' = section_vars ]_vars

\* path.mkdir(parents=True, exist_ok=True): a call that returns leaves the
\* path and every ancestor of it on disk; a call that raises left the path
\* itself missing.  So a path of the run is on disk when its own call, or a
\* later call for a path below it, returned.
is_prefix(p, q) == Len(p) <= Len(q) /\ SubSeq(q, 1, Len(p)) = p

on_disk(path) ==
  \E i \in 1..Len(attempts) : attempts[i].ok /\ is_prefix(path, attempts[i].path)

\* C11: when the success message is shown, every path of the planned list
\* is a directory on disk.
C11_SuccessMeansAllExist ==
  pc = "Completed" => \A i \in 1..Len(Planned) : on_disk(Planned[i])

============================================================================
